---- MODULE Spec2Model ----
(***************************************************************************)
(* Model of cronToPlistFragment (src/lib/utilities/plist-builder.ts): the  *)
(* translation of a cron string into a launchd plist fragment.             *)
(*                                                                         *)
(* A cron string is a sequence of one-character strings.  The external     *)
(* cron-parser library is modelled by what it returns for a fixed menu of  *)
(* field tokens (ParserTable); everything after the parse is translated    *)
(* from the source line by line.                                           *)
(***************************************************************************)
EXTENDS Integers, Sequences, FiniteSets

VARIABLES
    cronString,                 \* the argument of cronToPlistFragment
    pc,                         \* position of the call
    parserCalls,                \* number of calls of CronExpressionParser.parse
    secondField,                \* serialized seconds field
    rawValue,                   \* fields.second.options.rawValue
    serializedFields,           \* the five serialized non-second fields
    allOtherFieldsWild,
    fieldsToCreate,             \* plist key -> value list
    permutations,
    startCalendarIntervalArray,
    result,                     \* what the call returned or threw
    previous                    \* the call completed before this one

vars == <<cronString, pc, parserCalls, secondField, rawValue, serializedFields,
          allOtherFieldsWild, fieldsToCreate, permutations,
          startCalendarIntervalArray, result, previous>>

(***************************************************************************)
(* Bounds                                                                  *)
(***************************************************************************)
\* longest run of whitespace put before and after a word
MaxPad == 1

(***************************************************************************)
(* Strings                                                                 *)
(***************************************************************************)
Whitespace == {" ", "\t", "\n"}

RECURSIVE TrimStart(_)
TrimStart(s) ==
    IF s # <<>> /\ Head(s) \in Whitespace THEN TrimStart(Tail(s)) ELSE s

RECURSIVE TrimEnd(_)
TrimEnd(s) ==
    IF s # <<>> /\ s[Len(s)] \in Whitespace
    THEN TrimEnd(SubSeq(s, 1, Len(s) - 1))
    ELSE s

\* String.prototype.trim
Trim(s) == TrimEnd(TrimStart(s))

\* String.prototype.toLowerCase, on the letters of the model's alphabet
LowerChar(c) ==
    CASE c = "R" -> "r"
      [] c = "E" -> "e"
      [] c = "B" -> "b"
      [] c = "O" -> "o"
      [] c = "T" -> "t"
      [] OTHER -> c

ToLowerCase(s) == [i \in 1..Len(s) |-> LowerChar(s[i])]

\* String.prototype.includes, for a one-character needle
Includes(s, c) == \E i \in 1..Len(s) : s[i] = c

\* String.prototype.split(/\s+/) of the trimmed string
RECURSIVE SplitAtoms(_, _, _)
SplitAtoms(s, current, acc) ==
    IF s = <<>>
    THEN IF current = <<>> THEN acc ELSE Append(acc, current)
    ELSE IF Head(s) \in Whitespace
         THEN SplitAtoms(Tail(s), <<>>,
                         IF current = <<>> THEN acc ELSE Append(acc, current))
         ELSE SplitAtoms(Tail(s), Append(current, Head(s)), acc)

Atoms(s) == SplitAtoms(s, <<>>, <<>>)

RECURSIVE Join(_)
Join(atoms) ==
    IF Len(atoms) = 0 THEN <<>>
    ELSE IF Len(atoms) = 1 THEN atoms[1]
    ELSE atoms[1] \o <<" ">> \o Join(Tail(atoms))

\* the literal '@reboot'
RebootLiteral == <<"@", "r", "e", "b", "o", "o", "t">>

(***************************************************************************)
(* The external cron parser, by its results on a menu of field tokens      *)
(***************************************************************************)
Range(a, b) == [i \in 1..(b - a + 1) |-> a + i - 1]

\* a, a+s, a+2s, ... while <= b
StepValues(a, b, s) == [i \in 1..((b - a) \div s + 1) |-> a + (i - 1) * s]

\* a value of a serialized field that is not a number ('L', last day)
LastDay == -1

IsNumber(v) == v # LastDay

CronKeys == {"minute", "hour", "dayOfMonth", "month", "dayOfWeek"}

Tok(raw, wildcard, values) == [raw |-> raw, wildcard |-> wildcard, values |-> values]

SecondTokens == {
    Tok(<<"*">>, TRUE, Range(0, 59)),
    Tok(<<"0">>, FALSE, <<0>>),
    Tok(<<"1">>, FALSE, <<1>>),
    Tok(<<"*", "/", "1", "0">>, FALSE, StepValues(0, 59, 10)),
    Tok(<<"*", "/", "7">>, FALSE, StepValues(0, 59, 7)),
    Tok(<<"*", "/", "1", "0", "0">>, FALSE, <<0>>),
    Tok(<<"0", ",", "2", "0">>, FALSE, <<0, 20>>),
    Tok(<<"5", ",", "3", "5">>, FALSE, <<5, 35>>) }

MinuteTokens == {
    Tok(<<"*">>, TRUE, Range(0, 59)),
    Tok(<<"5">>, FALSE, <<5>>),
    Tok(<<"0", ",", "3", "0">>, FALSE, <<0, 30>>),
    Tok(<<"*", "/", "2", "0">>, FALSE, StepValues(0, 59, 20)),
    Tok(<<"0", "-", "3", "1">>, FALSE, Range(0, 31)),
    Tok(<<"0", "-", "3", "2">>, FALSE, Range(0, 32)) }

HourTokens == {
    Tok(<<"*">>, TRUE, Range(0, 23)),
    Tok(<<"0">>, FALSE, <<0>>),
    Tok(<<"9", ",", "1", "7">>, FALSE, <<9, 17>>),
    Tok(<<"9", "-", "1", "1">>, FALSE, Range(9, 11)),
    Tok(<<"0", "-", "1", "5">>, FALSE, Range(0, 15)),
    Tok(<<"0", "-", "1", "6">>, FALSE, Range(0, 16)) }

DayOfMonthTokens == {
    Tok(<<"*">>, TRUE, Range(1, 31)),
    Tok(<<"3", "1">>, FALSE, <<31>>),
    Tok(<<"1", ",", "1", "5">>, FALSE, <<1, 15>>),
    Tok(<<"1", "-", "7">>, FALSE, Range(1, 7)),
    Tok(<<"L">>, FALSE, <<LastDay>>),
    Tok(<<"1", "-", "1", "6">>, FALSE, Range(1, 16)),
    Tok(<<"1", "-", "1", "7">>, FALSE, Range(1, 17)) }

MonthTokens == {
    Tok(<<"*">>, TRUE, Range(1, 12)),
    Tok(<<"2">>, FALSE, <<2>>),
    Tok(<<"*", "/", "4">>, FALSE, StepValues(1, 12, 4)),
    Tok(<<"1", "-", "8">>, FALSE, Range(1, 8)),
    Tok(<<"1", "-", "9">>, FALSE, Range(1, 9)) }

DayOfWeekTokens == {
    Tok(<<"*">>, TRUE, Range(0, 7)),
    Tok(<<"7">>, FALSE, <<7>>),
    Tok(<<"0", ",", "7">>, FALSE, <<0, 7>>),
    Tok(<<"1", "-", "5">>, FALSE, Range(1, 5)) }

\* the values of a set in ascending order, as the parser serializes them
RECURSIVE Ascending(_)
Ascending(S) ==
    IF S = {} THEN <<>>
    ELSE LET m == CHOOSE x \in S : \A y \in S : x <= y
         IN  <<m>> \o Ascending(S \ {m})

DigitChars == <<"0", "1", "2", "3", "4", "5", "6", "7", "8", "9">>

\* the text of a value below 100, '7' or '45'
NumberChars(v) ==
    IF v < 10 THEN <<DigitChars[v + 1]>>
    ELSE <<DigitChars[(v \div 10) + 1], DigitChars[(v % 10) + 1]>>

\* the text of a list of values, '0,3,7'
RECURSIVE ListRaw(_)
ListRaw(values) ==
    IF Len(values) = 1 THEN NumberChars(values[1])
    ELSE NumberChars(values[1]) \o <<",">> \o ListRaw(Tail(values))

\* every explicit list of weekdays 0..7
WeekdayListTokens ==
    {Tok(ListRaw(Ascending(S)), FALSE, Ascending(S)) : S \in (SUBSET (0..7)) \ {{}}}

\* every explicit list of seconds among the quarters and the tens of a minute
SecondListTokens ==
    {Tok(ListRaw(Ascending(S)), FALSE, Ascending(S)) :
        S \in (SUBSET {0, 10, 15, 20, 30, 40, 45, 50}) \ {{}}}

\* tokens of the calendar tests: midnight, every five minutes, day 30, April
CalendarTokens(field) ==
    CASE field = "second" -> SecondListTokens
      [] field = "minute" -> {Tok(<<"0">>, FALSE, <<0>>),
                              Tok(<<"*", "/", "5">>, FALSE,
                                  StepValues(0, 59, 5))}
      [] field = "dayOfMonth" -> {Tok(<<"3", "0">>, FALSE, <<30>>)}
      [] field = "month" -> {Tok(<<"4">>, FALSE, <<4>>)}
      [] field = "dayOfWeek" ->
             WeekdayListTokens
                 \cup {Tok(<<"0", "-", "7">>, FALSE, Range(0, 7))}
      [] OTHER -> {}

\* the parser's tokens of each field, seconds first
FieldOrder == <<"second", "minute", "hour", "dayOfMonth", "month", "dayOfWeek">>

MenuTokens(field) ==
    CASE field = "second" -> SecondTokens
      [] field = "minute" -> MinuteTokens
      [] field = "hour" -> HourTokens
      [] field = "dayOfMonth" -> DayOfMonthTokens
      [] field = "month" -> MonthTokens
      [] field = "dayOfWeek" -> DayOfWeekTokens

ParserTable(field) == MenuTokens(field) \cup CalendarTokens(field)

\* fields missing on the left take these tokens (a 5-field string has second '0')
DefaultAtoms == <<<<"0">>, <<"*">>, <<"*">>, <<"*">>, <<"*">>, <<"*">>>>

DaysInMonth == <<31, 29, 31, 30, 31, 30, 31, 31, 30, 31, 30, 31>>

NoField == [raw |-> <<>>, wildcard |-> FALSE, values |-> <<>>]

\* the parser throws; error stands for its message
ParseFailure(error) ==
    [ok |-> FALSE, fields |-> [f \in {} |-> NoField], error |-> error]

\* CronExpressionParser.parse(cronString).fields, or a failure
CronExpressionParserParse(s) ==
    LET atoms == Atoms(s)
        n == Len(atoms)
    IN  IF n = 0 THEN ParseFailure("InvalidCronExpression")
        ELSE IF n > 6 THEN ParseFailure("TooManyFields")
        ELSE
        LET filled == SubSeq(DefaultAtoms, 1, 6 - n) \o atoms
            known == \A i \in 1..6 :
                         \E t \in ParserTable(FieldOrder[i]) : t.raw = filled[i]
        IN  IF ~known THEN ParseFailure("InvalidCharacters")
            ELSE
            LET fields == [f \in {FieldOrder[i] : i \in 1..6} |->
                              LET i == CHOOSE j \in 1..6 : FieldOrder[j] = f
                              IN  CHOOSE t \in ParserTable(f) : t.raw = filled[i]]
                dom == fields["dayOfMonth"]
                mon == fields["month"]
                impossible ==
                    /\ ~dom.wildcard /\ ~mon.wildcard
                    /\ Len(dom.values) = 1 /\ Len(mon.values) = 1
                    /\ IsNumber(dom.values[1])
                    /\ dom.values[1] > DaysInMonth[mon.values[1]]
            IN  IF impossible THEN ParseFailure("InvalidExplicitDayOfMonth")
                ELSE [ok |-> TRUE, fields |-> fields, error |-> ""]

(***************************************************************************)
(* Results of a call                                                       *)
(***************************************************************************)
Res(kind, interval, error, values, raw) ==
    [kind |-> kind, interval |-> interval, error |-> error,
     values |-> values, raw |-> raw]

NoResult == Res("none", 0, "", <<>>, <<>>)

RunAtLoad == Res("RunAtLoad", 0, "", <<>>, <<>>)

StartInterval(n) == Res("StartInterval", n, "", <<>>, <<>>)

\* the entries are in startCalendarIntervalArray
StartCalendarInterval == Res("StartCalendarInterval", 0, "", <<>>, <<>>)

\* a thrown Error; values and raw are what the message interpolates
Throw(error, values, raw) == Res("Error", 0, error, values, raw)

NoFields == [k \in {} |-> <<>>]

(***************************************************************************)
(* Helpers of the translator                                               *)
(***************************************************************************)
PlistKeys == {"Minute", "Hour", "Day", "Month", "Weekday"}

cronKeyToPlistKey(cronKey) ==
    CASE cronKey = "dayOfMonth" -> [ok |-> TRUE, key |-> "Day"]
      [] cronKey = "dayOfWeek" -> [ok |-> TRUE, key |-> "Weekday"]
      [] cronKey = "hour" -> [ok |-> TRUE, key |-> "Hour"]
      [] cronKey = "month" -> [ok |-> TRUE, key |-> "Month"]
      [] cronKey = "second" -> [ok |-> FALSE, key |-> "SecondNotSupported"]
      [] cronKey = "minute" -> [ok |-> TRUE, key |-> "Minute"]
      [] OTHER -> [ok |-> FALSE, key |-> "UnsupportedCronKey"]

\* the interval as <<interval>>, undefined as <<>>
getConsistentSecondIntervalStrict(values) ==
    IF Len(values) < 2 THEN <<>>
    ELSE LET interval == values[2] - values[1]
         IN  IF /\ \A index \in 1..Len(values) :
                       values[index] - values[1] = interval * (index - 1)
                /\ values[Len(values)] + interval > 60
                /\ values[1] = 0
             THEN <<interval>>
             ELSE <<>>

getConsistentSecondInterval(values) ==
    IF Len(values) < 2 THEN <<>>
    ELSE LET interval == values[2] - values[1]
         IN  IF /\ \A index \in 1..Len(values) :
                       values[index] - values[1] = interval * (index - 1)
                /\ values[Len(values)] + interval >= 60
                /\ values[1] = 0
             THEN <<interval>>
             ELSE <<>>

SeqIncludes(values, v) == \E i \in 1..Len(values) : values[i] = v

\* lines 313-328 without the removal of a doubled Sunday
deduplicateWeekdaysRewriteOnly(values) ==
    [i \in 1..Len(values) |-> IF values[i] = 7 THEN 0 ELSE values[i]]

deduplicateWeekdays(values) ==
    LET hasZero == SeqIncludes(values, 0)
        hasSeven == SeqIncludes(values, 7)
    IN  IF hasZero /\ hasSeven
        THEN SelectSeq(values, LAMBDA v : v # 7)
        ELSE IF hasSeven /\ ~hasZero
        THEN [i \in 1..Len(values) |-> IF values[i] = 7 THEN 0 ELSE values[i]]
        ELSE values

AllNumbers(values) == \A i \in 1..Len(values) : IsNumber(values[i])

(***************************************************************************)
(* cronToPlistFragment, stage by stage                                     *)
(***************************************************************************)
\* line 82, the reboot test
IsRebootAnyCase(s) == ToLowerCase(Trim(s)) = RebootLiteral

IsRebootUntrimmed(s) == TrimStart(s) = RebootLiteral

IsReboot(s) == Trim(s) = RebootLiteral

\* lines 105-115, the error of a single nonzero second value
SingleSecondErrorSwapped(value, otherWild) ==
    IF otherWild
    THEN Throw("SecondsRequireWildcards", <<value>>, <<>>)
    ELSE Throw("SingleSecondMustBeZero", <<value>>, <<>>)

SingleSecondError(value, otherWild) ==
    IF otherWild
    THEN Throw("SingleSecondMustBeZero", <<value>>, <<>>)
    ELSE Throw("SecondsRequireWildcards", <<value>>, <<>>)

\* lines 128-138, a consistent interval
IntervalOutcomeAnyFields(consistentSecondInterval, otherWild) ==
    StartInterval(consistentSecondInterval[1])

IntervalOutcome(consistentSecondInterval, otherWild) ==
    IF ~otherWild
    THEN Throw("IntervalRequiresWildcards", consistentSecondInterval, <<>>)
    ELSE StartInterval(consistentSecondInterval[1])

\* lines 144-148, the test of a degenerate interval
IsDegenerateAnyFields(second, raw, otherWild) ==
    /\ Len(second.values) = 1 /\ second.values[1] = 0
    /\ Includes(raw, "/")

IsDegenerate(second, raw, otherWild) ==
    /\ Len(second.values) = 1 /\ second.values[1] = 0 /\ otherWild
    /\ Includes(raw, "/")

\* lines 156-161, a wildcard seconds field
WildcardSecondsOutcomeLenient(otherWild) == NoResult

WildcardSecondsOutcome(otherWild) ==
    IF ~otherWild
    THEN Throw("SecondsWildcard", <<>>, <<>>)
    ELSE NoResult

\* lines 117-139, a list of two or more seconds
ListOutcomeFieldsFirst(values, otherWild) ==
    IF ~otherWild
    THEN Throw("IntervalRequiresWildcards",
               getConsistentSecondInterval(values), <<>>)
    ELSE IF getConsistentSecondInterval(values) = <<>>
    THEN Throw("InconsistentInterval", values, <<>>)
    ELSE StartInterval(getConsistentSecondInterval(values)[1])

ListOutcome(values, otherWild) ==
    LET consistentSecondInterval == getConsistentSecondInterval(values)
    IN  IF consistentSecondInterval = <<>>
        THEN Throw("InconsistentInterval", values, <<>>)
        ELSE IntervalOutcome(consistentSecondInterval, otherWild)

\* lines 97-161: the result that ends the call, or NoResult to go on
ValidateSeconds(second, raw, otherWild) ==
    IF ~second.wildcard
    THEN
        IF ~AllNumbers(second.values)
        THEN Throw("SecondsNotNumbers", <<>>, <<>>)
        ELSE IF Len(second.values) = 1 /\ second.values[1] # 0
        THEN SingleSecondError(second.values[1], otherWild)
        ELSE IF Len(second.values) > 1
        THEN ListOutcome(second.values, otherWild)
        ELSE IF IsDegenerate(second, raw, otherWild)
        THEN Throw("DegenerateInterval", <<>>, raw)
        ELSE NoResult
    ELSE WildcardSecondsOutcome(otherWild)

\* the keys of the fields in the order of Object.entries
EntriesOrder(fields) == SelectSeq(FieldOrder, LAMBDA f : f \in DOMAIN fields)

\* lines 164-179: the fields that are not wildcards, under their plist keys
NonWildcard(fields) == {f \in DOMAIN fields : ~fields[f].wildcard}

MappedFields(fields) ==
    [k \in {cronKeyToPlistKey(f).key : f \in NonWildcard(fields)} |->
        LET f == CHOOSE g \in NonWildcard(fields) : cronKeyToPlistKey(g).key = k
        IN  IF f = "dayOfWeek"
            THEN deduplicateWeekdays(fields[f].values)
            ELSE fields[f].values]

\* the first field whose mapping throws, 0 when none does
FirstBadField(fields) ==
    LET bad == {i \in 1..Len(EntriesOrder(fields)) :
                   /\ EntriesOrder(fields)[i] \in NonWildcard(fields)
                   /\ \/ ~AllNumbers(fields[EntriesOrder(fields)[i]].values)
                      \/ ~cronKeyToPlistKey(EntriesOrder(fields)[i]).ok}
    IN  IF bad = {} THEN 0 ELSE CHOOSE i \in bad : \A j \in bad : i <= j

\* lines 184-189, the all-wildcard call that returns StartInterval 1
UsesSecondIntervalAlways(second) == TRUE

UsesSecondInterval(second) == second.wildcard

\* lines 191-193, the every-minute fallback
EveryMinuteFieldsFromHour(fields) ==
    [k \in {"Minute"} |-> fields["hour"].values]

EveryMinuteFields(fields) ==
    [k \in {"Minute"} |-> fields["minute"].values]

\* lines 197-200
RECURSIVE ProductOver(_, _)
ProductOver(fields, keys) ==
    IF keys = {} THEN 1
    ELSE LET k == CHOOSE x \in keys : TRUE
         IN  Len(fields[k]) * ProductOver(fields, keys \ {k})

CountPermutations(fields) == ProductOver(fields, DOMAIN fields)

\* line 207
MaxPermutations == 65536

ExceedsCeilingInclusive(n) == n >= MaxPermutations

ExceedsCeiling(n) == n > MaxPermutations

\* lines 215-223, the item of iteration i
ItemAtDivided(fields, i) ==
    [k \in DOMAIN fields |->
        fields[k][((i \div Len(fields[k])) % Len(fields[k])) + 1]]

ItemAtMinuteOnly(fields, i) ==
    [k \in DOMAIN fields \cap {"Minute"} |-> fields[k][(i % Len(fields[k])) + 1]]

ItemAt(fields, i) ==
    [k \in DOMAIN fields |-> fields[k][(i % Len(fields[k])) + 1]]

\* lines 212-226, the loop
BuildPermutationsShort(fields, n) ==
    [i \in 1..(n - 1) |-> ItemAt(fields, i - 1)]

BuildPermutations(fields, n) ==
    [i \in 1..n |-> ItemAt(fields, i - 1)]

(***************************************************************************)
(* State                                                                   *)
(***************************************************************************)
NoFieldSet == [f \in CronKeys |-> NoField]

\* the locals of a call that has not started
FreshLocals ==
    [pc |-> "start", parserCalls |-> 0, secondField |-> NoField,
     rawValue |-> <<>>, serializedFields |-> NoFieldSet,
     allOtherFieldsWild |-> FALSE, fieldsToCreate |-> NoFields,
     permutations |-> 0, startCalendarIntervalArray |-> <<>>,
     result |-> NoResult]

\* what a completed call leaves behind for its caller
Outcome(called, string, second, fields, res, entries) ==
    [called |-> called, cronString |-> string, secondField |-> second,
     serializedFields |-> fields, result |-> res, entries |-> entries]

NoPrevious == Outcome(FALSE, <<>>, NoField, NoFieldSet, NoResult, <<>>)

Fresh ==
    /\ previous = NoPrevious
    /\ pc = "start"
    /\ parserCalls = 0
    /\ secondField = NoField
    /\ rawValue = <<>>
    /\ serializedFields = NoFieldSet
    /\ allOtherFieldsWild = FALSE
    /\ fieldsToCreate = NoFields
    /\ permutations = 0
    /\ startCalendarIntervalArray = <<>>
    /\ result = NoResult

\* lines 82-86
RebootCheck ==
    /\ pc = "start"
    /\ IF IsReboot(cronString)
       THEN /\ result' = RunAtLoad
            /\ pc' = "done"
       ELSE /\ pc' = "parse"
            /\ UNCHANGED result
    /\ UNCHANGED <<cronString, parserCalls, secondField, rawValue,
                   serializedFields, allOtherFieldsWild, fieldsToCreate,
                   permutations, startCalendarIntervalArray,
                   previous>>

\* line 89: nothing catches what the parser throws
ParserErrorWrapped(error) == Throw("InvalidCronString", <<>>, <<>>)

ParserError(error) == Throw(error, <<>>, <<>>)

\* line 90, the fields left once second is taken out
RestFieldsWithSecond(fields) == fields

RestFields(fields) == [f \in DOMAIN fields \ {"second"} |-> fields[f]]

\* lines 89-93
Parse ==
    /\ pc = "parse"
    /\ parserCalls' = parserCalls + 1
    /\ LET parsed == CronExpressionParserParse(cronString)
       IN  IF ~parsed.ok
           THEN /\ result' = ParserError(parsed.error)
                /\ pc' = "done"
                /\ UNCHANGED <<secondField, rawValue, serializedFields,
                               allOtherFieldsWild>>
           ELSE /\ secondField' = parsed.fields["second"]
                /\ rawValue' = parsed.fields["second"].raw
                /\ serializedFields' = RestFields(parsed.fields)
                /\ allOtherFieldsWild' =
                       \A f \in DOMAIN RestFields(parsed.fields) :
                           parsed.fields[f].wildcard
                /\ pc' = "seconds"
                /\ UNCHANGED result
    /\ UNCHANGED <<cronString, fieldsToCreate, permutations,
                   startCalendarIntervalArray, previous>>

\* lines 95-161 left until after the expansion
SecondsDeferred ==
    /\ pc = "seconds"
    /\ pc' = "map"
    /\ UNCHANGED <<cronString, parserCalls, secondField, rawValue,
                   serializedFields, allOtherFieldsWild, fieldsToCreate,
                   permutations, startCalendarIntervalArray, result,
                   previous>>

\* lines 95-161
Seconds ==
    /\ pc = "seconds"
    /\ LET outcome == ValidateSeconds(secondField, rawValue, allOtherFieldsWild)
       IN  /\ result' = outcome
           /\ pc' = IF outcome = NoResult THEN "map" ELSE "done"
    /\ UNCHANGED <<cronString, parserCalls, secondField, rawValue,
                   serializedFields, allOtherFieldsWild, fieldsToCreate,
                   permutations, startCalendarIntervalArray,
                   previous>>

\* lines 163-194
MapFields ==
    /\ pc = "map"
    /\ LET bad == FirstBadField(serializedFields)
           field == EntriesOrder(serializedFields)[bad]
       IN  IF bad # 0
           THEN /\ result' =
                       IF ~AllNumbers(serializedFields[field].values)
                       THEN Throw("FieldNotNumbers",
                                  serializedFields[field].values, <<>>)
                       ELSE Throw(cronKeyToPlistKey(field).key, <<>>, <<>>)
                /\ pc' = "done"
                /\ UNCHANGED fieldsToCreate
           ELSE LET mapped == MappedFields(serializedFields)
                IN  IF DOMAIN mapped = {}
                    THEN IF UsesSecondInterval(secondField)
                         THEN /\ result' = StartInterval(1)
                              /\ pc' = "done"
                              /\ fieldsToCreate' = mapped
                         ELSE /\ fieldsToCreate' = EveryMinuteFields(serializedFields)
                              /\ pc' = "expand"
                              /\ UNCHANGED result
                    ELSE /\ fieldsToCreate' = mapped
                         /\ pc' = "expand"
                         /\ UNCHANGED result
    /\ UNCHANGED <<cronString, parserCalls, secondField, rawValue,
                   serializedFields, allOtherFieldsWild, permutations,
                   startCalendarIntervalArray, previous>>

\* lines 196-234 with the return moved before the loop
ExpandEarlyReturn ==
    /\ pc = "expand"
    /\ permutations' = CountPermutations(fieldsToCreate)
    /\ result' = IF ExceedsCeiling(permutations')
                 THEN Throw("TooManyPermutations", <<permutations'>>, <<>>)
                 ELSE StartCalendarInterval
    /\ pc' = "done"
    /\ UNCHANGED <<cronString, parserCalls, secondField, rawValue,
                   serializedFields, allOtherFieldsWild, fieldsToCreate,
                   startCalendarIntervalArray, previous>>

\* lines 196-234 with a loop whose index never advances
ExpandForever ==
    /\ pc = "expand"
    /\ permutations' = CountPermutations(fieldsToCreate)
    /\ IF ExceedsCeiling(permutations')
       THEN /\ result' = Throw("TooManyPermutations", <<permutations'>>, <<>>)
            /\ pc' = "done"
       ELSE /\ pc' = "expand"
            /\ UNCHANGED result
    /\ UNCHANGED <<cronString, parserCalls, secondField, rawValue,
                   serializedFields, allOtherFieldsWild, fieldsToCreate,
                   startCalendarIntervalArray, previous>>

\* lines 196-234
Expand ==
    /\ pc = "expand"
    /\ permutations' = CountPermutations(fieldsToCreate)
    /\ IF ExceedsCeiling(permutations')
       THEN /\ result' = Throw("TooManyPermutations", <<permutations'>>, <<>>)
            /\ UNCHANGED startCalendarIntervalArray
       ELSE LET built == BuildPermutations(fieldsToCreate, permutations')
                badItem == \E k \in DOMAIN fieldsToCreate :
                               \E i \in 1..Len(fieldsToCreate[k]) :
                                   /\ i <= permutations'
                                   /\ ~IsNumber(fieldsToCreate[k][i])
            IN  IF badItem
                THEN /\ result' = Throw("FieldNotANumber", <<>>, <<>>)
                     /\ UNCHANGED startCalendarIntervalArray
                ELSE /\ startCalendarIntervalArray' = built
                     /\ result' = IF Len(built) = 0
                                  THEN Throw("NoItems", <<>>, <<>>)
                                  ELSE StartCalendarInterval
    /\ pc' = "done"
    /\ UNCHANGED <<cronString, parserCalls, secondField, rawValue,
                   serializedFields, allOtherFieldsWild, fieldsToCreate,
                   previous>>

Next == RebootCheck \/ Parse \/ Seconds \/ MapFields \/ Expand

(***************************************************************************)
(* Inputs                                                                  *)
(***************************************************************************)
\* runs of whitespace of length at most n
RECURSIVE Pads(_)
Pads(n) ==
    IF n = 0 THEN {<<>>}
    ELSE Pads(n - 1) \cup {Append(p, w) : p \in {q \in Pads(n - 1) : Len(q) = n - 1},
                                          w \in Whitespace}

\* '@reboot', its case variants and a near miss
Words == {
    RebootLiteral,
    <<"@", "R", "E", "B", "O", "O", "T">>,
    <<"@", "R", "e", "b", "o", "o", "t">>,
    <<"r", "e", "b", "o", "o", "t">>,
    <<"@", "r", "e", " ", "b", "o", "o", "t">> }

PaddedWords == {a \o w \o b : a \in Pads(MaxPad), w \in Words, b \in Pads(MaxPad)}

\* the value lists long enough to cross the ceiling when multiplied
LongTokens(field) ==
    {t \in ParserTable(field) :
        t.raw \in { <<"0", "-", "3", "1">>, <<"0", "-", "3", "2">>,
                    <<"0", "-", "1", "5">>, <<"0", "-", "1", "6">>,
                    <<"1", "-", "1", "6">>, <<"1", "-", "1", "7">>,
                    <<"1", "-", "8">>, <<"1", "-", "9">> }}

ShortTokens(field) == MenuTokens(field) \ LongTokens(field)

Raws(tokens) == {t.raw : t \in tokens}

\* five-field strings and six-field strings over the short tokens
CronStrings ==
    LET five == {<<mi, h, d, mo, w>> :
                    mi \in Raws(ShortTokens("minute")),
                    h \in Raws(ShortTokens("hour")),
                    d \in Raws(ShortTokens("dayOfMonth")),
                    mo \in Raws(ShortTokens("month")),
                    w \in Raws(ShortTokens("dayOfWeek"))}
    IN  {Join(f) : f \in five}
        \cup {Join(<<s>> \o f) : s \in Raws(SecondTokens), f \in five}

\* five-field strings whose permutation totals lie on both sides of the ceiling
LongCronStrings ==
    {Join(<<mi, h, d, mo, w>>) :
        mi \in Raws(LongTokens("minute")),
        h \in Raws(LongTokens("hour")),
        d \in Raws(LongTokens("dayOfMonth")),
        mo \in Raws(LongTokens("month")),
        w \in {<<"*">>, <<"7">>}}

\* '*/5 * * * *', the minute step of the tests
EveryFiveMinutes ==
    Join(<<(<<"*", "/", "5">>), (<<"*">>), (<<"*">>), (<<"*">>), (<<"*">>)>>)

\* the calendar tests: midnight on days of the month, months and weekdays,
\* and strings the parser refuses
CalendarCronStrings ==
    {Join(<<(<<"0">>), (<<"0">>), d, mo, w>>) :
        d \in {<<"*">>, <<"1", "-", "7">>, <<"3", "0">>, <<"3", "1">>},
        mo \in {<<"*">>, <<"2">>, <<"4">>},
        w \in {<<"*">>} \cup Raws(CalendarTokens("dayOfWeek"))}
    \cup Words
    \cup {Join(<<(<<"0">>), (<<"0">>), (<<"*">>), (<<"*">>), (<<"*">>),
                 (<<"*">>), (<<"*">>)>>)}

\* lists of seconds before all wildcards and before an explicit minute
SecondListCronStrings ==
    {Join(<<s, mi, (<<"*">>), (<<"*">>), (<<"*">>), (<<"*">>)>>) :
        s \in Raws(SecondListTokens), mi \in {<<"*">>, <<"5">>}}

\* the strings of two calls that differ in how the seconds are written
CallStrings ==
    LET five == {<<mi, h, (<<"*">>), (<<"*">>), w>> :
                    mi \in {<<"*">>, <<"5">>},
                    h \in {<<"*">>, <<"9", ",", "1", "7">>},
                    w \in {<<"*">>, <<"7">>}}
    IN  {Join(f) : f \in five}
        \cup {Join(<<s>> \o f) :
                s \in {<<"0">>, <<"*", "/", "1", "0", "0">>, <<"1">>, <<"*">>},
                f \in five}

\* the caller's calls with an array that outlives the call
NextCallSharedArray ==
    /\ pc = "done"
    /\ previous' \in {previous,
                       Outcome(TRUE, cronString, secondField, serializedFields,
                               result, startCalendarIntervalArray)}
    /\ cronString' \in CallStrings
    /\ pc' = FreshLocals.pc
    /\ parserCalls' = FreshLocals.parserCalls
    /\ secondField' = FreshLocals.secondField
    /\ rawValue' = FreshLocals.rawValue
    /\ serializedFields' = FreshLocals.serializedFields
    /\ allOtherFieldsWild' = FreshLocals.allOtherFieldsWild
    /\ fieldsToCreate' = FreshLocals.fieldsToCreate
    /\ permutations' = FreshLocals.permutations
    /\ result' = FreshLocals.result
    /\ UNCHANGED startCalendarIntervalArray

\* the caller invokes the function again with another string, keeping the
\* outcome of the call that just ended or that of an earlier call
NextCall ==
    /\ pc = "done"
    /\ previous' \in {previous,
                       Outcome(TRUE, cronString, secondField, serializedFields,
                               result, startCalendarIntervalArray)}
    /\ cronString' \in CallStrings
    /\ pc' = FreshLocals.pc
    /\ parserCalls' = FreshLocals.parserCalls
    /\ secondField' = FreshLocals.secondField
    /\ rawValue' = FreshLocals.rawValue
    /\ serializedFields' = FreshLocals.serializedFields
    /\ allOtherFieldsWild' = FreshLocals.allOtherFieldsWild
    /\ fieldsToCreate' = FreshLocals.fieldsToCreate
    /\ permutations' = FreshLocals.permutations
    /\ startCalendarIntervalArray' = FreshLocals.startCalendarIntervalArray
    /\ result' = FreshLocals.result

NextCalls == Next \/ NextCall

\* the same strings behind seconds that break a rule of the seconds
SecondsLongCronStrings ==
    {Join(<<s, mi, h, d, mo, (<<"*">>)>>) :
        s \in {<<"*">>, <<"1">>, <<"*", "/", "1", "0">>, <<"0", ",", "2", "0">>},
        mi \in Raws(LongTokens("minute")),
        h \in Raws(LongTokens("hour")),
        d \in Raws(LongTokens("dayOfMonth")),
        mo \in Raws(LongTokens("month"))}

Init ==
    /\ cronString \in PaddedWords \cup CronStrings \cup {EveryFiveMinutes}
    /\ Fresh

InitCalendar ==
    /\ cronString \in CalendarCronStrings
    /\ Fresh

\* the long strings with any weekday, without seconds and with the second 1
InitLongFair ==
    /\ cronString \in LongCronStrings \cup SecondsLongCronStrings
    /\ cronString[Len(cronString)] = "*"
    /\ Len(Atoms(cronString)) = 5 \/ Head(cronString) = "1"
    /\ Fresh

InitSeconds ==
    /\ cronString \in SecondListCronStrings
    /\ Fresh

InitCalls ==
    /\ cronString \in CallStrings
    /\ Fresh

InitLong ==
    /\ cronString \in LongCronStrings \cup SecondsLongCronStrings
    /\ Fresh

Spec == Init /\ [][Next]_vars

SpecLong == InitLong /\ [][Next]_vars

SpecCalendar == InitCalendar /\ [][Next]_vars

\* every statement of the function is executed once the one before it is done
SpecLongFair == InitLongFair /\ [][Next]_vars /\ WF_vars(Next)

SpecSeconds == InitSeconds /\ [][Next]_vars

SpecCalls == InitCalls /\ [][NextCalls]_vars

TypeOK ==
    /\ pc \in {"start", "parse", "seconds", "map", "expand", "done"}
    /\ parserCalls \in 0..1
    /\ allOtherFieldsWild \in BOOLEAN
    /\ result.kind \in {"none", "RunAtLoad", "StartInterval",
                        "StartCalendarInterval", "Error"}
    /\ DOMAIN fieldsToCreate \subseteq PlistKeys
    /\ (pc = "done") = (result.kind # "none")

(***************************************************************************)
(* Vocabulary of the properties                                            *)
(***************************************************************************)
Done == pc = "done"

\* the parser returned a field set
ParsedOK == parserCalls = 1 /\ secondField # NoField

\* the string had five fields, so the parser supplied second = 0
SecondsDefaulted == ParsedOK /\ Len(Atoms(cronString)) = 5

\* the call reached the permutation expansion
Expanded == Done /\ permutations > 0

Returned(kind) == Done /\ result.kind = kind

Threw(error) == Done /\ result.kind = "Error" /\ result.error = error

ExplicitFields == {f \in CronKeys : ParsedOK /\ ~serializedFields[f].wildcard}

ValueSet(values) == {values[i] : i \in 1..Len(values)}

\* number of distinct values of a field, 0 and 7 being the same weekday
Cardinal(f) ==
    IF f = "dayOfWeek"
    THEN Cardinality({v % 7 : v \in ValueSet(serializedFields[f].values)})
    ELSE Cardinality(ValueSet(serializedFields[f].values))

RECURSIVE CardinalProduct(_)
CardinalProduct(fs) ==
    IF fs = {} THEN 1
    ELSE LET f == CHOOSE x \in fs : TRUE
         IN  Cardinal(f) * CardinalProduct(fs \ {f})

RECURSIVE GCD(_, _)
GCD(a, b) == IF b = 0 THEN a ELSE GCD(b, a % b)

Entries == startCalendarIntervalArray

\* number of entries equal to item
Occurrences(item) == Cardinality({i \in 1..Len(Entries) : Entries[i] = item})

\* all assignments of one listed value to each of the keys
RECURSIVE CombinationsOver(_)
CombinationsOver(keys) ==
    IF keys = {} THEN {NoFields}
    ELSE LET k == CHOOSE x \in keys : TRUE
         IN  {[x \in DOMAIN c \cup {k} |-> IF x = k THEN v ELSE c[x]] :
                 c \in CombinationsOver(keys \ {k}),
                 v \in ValueSet(fieldsToCreate[k])}

Combinations == CombinationsOver(DOMAIN fieldsToCreate)

\* cronString is w between two runs of whitespace
Padded(w) == \E a \in Pads(MaxPad), b \in Pads(MaxPad) : cronString = a \o w \o b

(***************************************************************************)
(* Properties                                                              *)
(***************************************************************************)

\* C1: with the seconds defaulted to 0 and two or more fields that are not
\* wildcards, the returned entries contain every combination of the listed
\* values of those fields (the full cross product).
C1_FullCrossProduct ==
    (/\ Returned("StartCalendarInterval")
     /\ SecondsDefaulted
     /\ Cardinality(ExplicitFields) >= 2)
    => \A c \in Combinations : \E i \in 1..Len(Entries) : Entries[i] = c

\* C2: two fields that are not wildcards, whose value lists as handed to the
\* expansion (a weekday list after 0/7 deduplication) have coprime
\* cardinalities a and b, the rest wildcard and the seconds defaulted: exactly
\* a*b entries, and every pair of the cross product occurs in exactly one
\* entry.
C2_CoprimePair ==
    (/\ Expanded
     /\ SecondsDefaulted
     /\ Cardinality(ExplicitFields) = 2
     /\ Cardinality(DOMAIN fieldsToCreate) = 2
     /\ LET f1 == CHOOSE f \in ExplicitFields : TRUE
            f2 == CHOOSE f \in ExplicitFields : f # f1
        IN  GCD(Cardinal(f1), Cardinal(f2)) = 1)
    => LET f1 == CHOOSE f \in ExplicitFields : TRUE
           f2 == CHOOSE f \in ExplicitFields : f # f1
       IN  /\ result.kind = "StartCalendarInterval"
           /\ Len(Entries) = Cardinal(f1) * Cardinal(f2)
           /\ \A i \in 1..Len(Entries) : Entries[i] \in Combinations
           /\ \A c \in Combinations : Occurrences(c) = 1

\* a reached case of C2: cardinalities 2 and 3, six entries
C2_Witness ==
    /\ Returned("StartCalendarInterval")
    /\ SecondsDefaulted
    /\ Cardinality(ExplicitFields) = 2
    /\ DOMAIN fieldsToCreate = {"Minute", "Hour"}
    /\ Len(fieldsToCreate["Minute"]) = 2
    /\ Len(fieldsToCreate["Hour"]) = 3
    /\ Len(Entries) = 6

\* C3 as stated: whenever calendar entries are returned, their number is the
\* product of the cardinalities of the fields that are not wildcards (weekday
\* after 0/7 deduplication).
C3_CountIsProduct ==
    Returned("StartCalendarInterval")
    => Len(Entries) = CardinalProduct(ExplicitFields)

\* C3 amended: the number of returned entries is the product of the
\* cardinalities of the non-second fields that are not wildcards (weekday
\* after 0/7 deduplication), shared factors or not; and it is 60 when all
\* five fields are wildcards.
C3_CountIsProductOrSixty ==
    Returned("StartCalendarInterval")
    => Len(Entries) = IF ExplicitFields = {}
                      THEN 60
                      ELSE CardinalProduct(ExplicitFields)

\* a reached case of C3: three fields whose cardinalities 2, 2, 2 share a factor
C3_Witness ==
    /\ Returned("StartCalendarInterval")
    /\ ExplicitFields = {"minute", "hour", "dayOfMonth"}
    /\ Cardinal("minute") = 2 /\ Cardinal("hour") = 2 /\ Cardinal("dayOfMonth") = 2
    /\ Len(Entries) = 8

\* C4: one field that is not a wildcard, with a list of k values as handed to
\* the expansion (a weekday list after 0/7 deduplication), the rest wildcard
\* and the seconds defaulted: exactly k entries, each with that field's key
\* only, carrying exactly the k values.
C4_SingleField ==
    (/\ Expanded
     /\ SecondsDefaulted
     /\ Cardinality(ExplicitFields) = 1
     /\ Cardinality(DOMAIN fieldsToCreate) = 1)
    => LET f == CHOOSE g \in ExplicitFields : TRUE
           key == cronKeyToPlistKey(f).key
           listed == IF f = "dayOfWeek"
                     THEN {v % 7 : v \in ValueSet(serializedFields[f].values)}
                     ELSE ValueSet(serializedFields[f].values)
           k == Cardinality(listed)
       IN  /\ result.kind = "StartCalendarInterval"
           /\ Len(Entries) = k
           /\ \A i \in 1..Len(Entries) : DOMAIN Entries[i] = {key}
           /\ \A v \in listed :
                  Cardinality({i \in 1..Len(Entries) : Entries[i][key] = v}) = 1

\* a reached case of C4: the day of month 1-7 alone, seven entries
C4_Witness ==
    /\ Returned("StartCalendarInterval")
    /\ SecondsDefaulted
    /\ ExplicitFields = {"dayOfMonth"}
    /\ Len(fieldsToCreate["Day"]) = 7
    /\ Len(Entries) = 7

\* the permutation total of the parsed expression
Total == IF ExplicitFields = {} THEN 60 ELSE CardinalProduct(ExplicitFields)

\* C5: the call fails with the explosion error, which reports the total, if
\* and only if the total is above 65536; then no entry is generated; a total
\* of exactly 65536 is accepted and gives 65536 entries.
C5_ExplosionCeiling ==
    Done =>
        /\ Threw("TooManyPermutations") <=> (Expanded /\ Total > 65536)
        /\ Threw("TooManyPermutations")
               => /\ result.values = <<Total>>
                  /\ Entries = <<>>
        /\ (Expanded /\ Total = 65536)
               => /\ result.kind = "StartCalendarInterval"
                  /\ Len(Entries) = 65536

\* a reached case of C5: a total above the ceiling was refused
C5_Witness ==
    /\ Threw("TooManyPermutations")
    /\ Total > 65536
    /\ Entries = <<>>

\* the values are 0, d, 2d, ... and the next one would be 60 or more
TilesFromZero(values, d) ==
    /\ Len(values) >= 2
    /\ \A i \in 1..Len(values) : values[i] = (i - 1) * d
    /\ values[Len(values)] + d >= 60

\* C6: a seconds list of two or more values that is an arithmetic progression
\* from 0 with difference d, whose last value plus d is at least 60, gives
\* StartInterval d when all other fields are wildcards, and an error otherwise.
C6_SecondsProgression ==
    \A d \in 1..59 :
        (/\ Done /\ ParsedOK
         /\ ~secondField.wildcard
         /\ TilesFromZero(secondField.values, d))
        => IF ExplicitFields = {}
           THEN result = StartInterval(d)
           ELSE result.kind = "Error"

\* a reached case of C6: '*/10' with everything else wildcard
C6_Witness ==
    /\ Returned("StartInterval")
    /\ result.interval = 10
    /\ TilesFromZero(secondField.values, 10)
    /\ ExplicitFields = {}

\* C7: a single nonzero seconds value always fails: with the 'must be 0' error
\* when all other fields are wildcards, with the 'only when all other fields
\* are wildcards' error otherwise; the error names the value.
C7_SingleNonzeroSecond ==
    (/\ Done /\ ParsedOK
     /\ ~secondField.wildcard
     /\ Len(secondField.values) = 1
     /\ secondField.values[1] # 0)
    => /\ result.kind = "Error"
       /\ result.values = secondField.values
       /\ result.error = IF ExplicitFields = {}
                         THEN "SingleSecondMustBeZero"
                         ELSE "SecondsRequireWildcards"

\* a reached case of C7: second 1 with an explicit hour
C7_Witness ==
    /\ Threw("SecondsRequireWildcards")
    /\ secondField.values = <<1>>
    /\ "hour" \in ExplicitFields

\* C8: all five fields wildcard and the seconds a plain single 0: exactly 60
\* entries, entry i being {Minute: i} for i = 0..59 in ascending order.
C8_EveryMinute ==
    (/\ Done /\ ParsedOK
     /\ ExplicitFields = {}
     /\ ~secondField.wildcard
     /\ secondField.values = <<0>>
     /\ ~Includes(rawValue, "/"))
    => /\ result.kind = "StartCalendarInterval"
       /\ Len(Entries) = 60
       /\ \A i \in 0..59 : Entries[i + 1] = [Minute |-> i]

\* a reached case of C8: the six-field '0 * * * * *'
C8_Witness ==
    /\ Returned("StartCalendarInterval")
    /\ Len(Atoms(cronString)) = 6
    /\ ExplicitFields = {}
    /\ secondField.values = <<0>>
    /\ Len(Entries) = 60

\* C9: '@reboot' between any runs of whitespace gives RunAtLoad, never a
\* StartInterval or calendar entries, and the parser is never called.
C9_Reboot ==
    Padded(RebootLiteral)
    => /\ parserCalls = 0
       /\ pc \in {"start", "done"}
       /\ Done => result = RunAtLoad

\* a reached case of C9: whitespace on both sides
C9_Witness ==
    /\ Returned("RunAtLoad")
    /\ Padded(RebootLiteral)
    /\ Head(cronString) \in Whitespace
    /\ cronString[Len(cronString)] \in Whitespace

\* cronString is a case variant of '@reboot' between runs of whitespace
CaseVariant ==
    \E w \in Words : ToLowerCase(w) = RebootLiteral /\ Padded(w)

\* C10 as stated: every case variant of '@reboot' gives RunAtLoad before the
\* parser is called.
C10_CaseInsensitive ==
    CaseVariant => /\ parserCalls = 0
                   /\ Done => result = RunAtLoad

\* C10 amended: the recognition is case-sensitive: only the lowercase
\* '@reboot' gives RunAtLoad; any other case variant is handed to the parser.
C10_CaseSensitive ==
    (Done /\ CaseVariant)
    => IF Padded(RebootLiteral)
       THEN result = RunAtLoad /\ parserCalls = 0
       ELSE result.kind # "RunAtLoad" /\ parserCalls = 1

\* a reached case of C10: '@REBOOT' went to the parser
C10_Witness ==
    /\ Done
    /\ Padded(<<"@", "R", "E", "B", "O", "O", "T">>)
    /\ parserCalls = 1
    /\ result.kind = "Error"

\* the list values without every v, in the same order
Without(values, v) == SelectSeq(values, LAMBDA x : x # v)

\* C11: an explicit day-of-week list with both 0 and 7 loses the 7 (one
\* shorter, 0 kept); with 7 and no 0 the 7 becomes 0 (same length); with no 7
\* it is unchanged. '0 0 * * 0' and '0 0 * * 7' both give a single entry with
\* Weekday 0.
C11_WeekdayDeduplication ==
    (/\ ParsedOK
     /\ "dayOfWeek" \in ExplicitFields
     /\ "Weekday" \in DOMAIN fieldsToCreate)
    => LET listed == serializedFields["dayOfWeek"].values
           kept == fieldsToCreate["Weekday"]
           zero == 0 \in ValueSet(listed)
           seven == 7 \in ValueSet(listed)
       IN  /\ (zero /\ seven)
               => /\ kept = Without(listed, 7)
                  /\ Len(kept) = Len(listed) - 1
                  /\ 0 \in ValueSet(kept)
           /\ (seven /\ ~zero)
               => /\ Len(kept) = Len(listed)
                  /\ \A i \in 1..Len(listed) :
                         kept[i] = IF listed[i] = 7 THEN 0 ELSE listed[i]
           /\ ~seven => kept = listed
           /\ (Done /\ listed \in {<<0>>, <<7>>} /\ ExplicitFields
                    = {"minute", "hour", "dayOfWeek"})
               => /\ result.kind = "StartCalendarInterval"
                  /\ Len(Entries) = 1
                  /\ Entries[1]["Weekday"] = 0

\* a reached case of C11: '0 0 * * 0,3,7' keeps 0 and 3
C11_Witness ==
    /\ Returned("StartCalendarInterval")
    /\ serializedFields["dayOfWeek"].values = <<0, 3, 7>>
    /\ fieldsToCreate["Weekday"] = <<0, 3>>

\* '0 0 1-7 * *' with the seconds defaulted
FirstWeekAtMidnight ==
    /\ Done /\ ParsedOK /\ SecondsDefaulted
    /\ ExplicitFields = {"minute", "hour", "dayOfMonth"}
    /\ serializedFields["minute"].values = <<0>>
    /\ serializedFields["hour"].values = <<0>>
    /\ serializedFields["dayOfMonth"].values = Range(1, 7)

\* C12 as stated: '0 0 1-7 * *' gives exactly 7 entries, the entry of day d
\* being {Hour: 0, Day: d}.
C12_FirstWeekHourDay ==
    FirstWeekAtMidnight
    => /\ result.kind = "StartCalendarInterval"
       /\ Len(Entries) = 7
       /\ \A d \in 1..7 : Entries[d] = [Hour |-> 0, Day |-> d]

\* C12 amended: '0 0 1-7 * *' gives exactly 7 entries, the entry of day d
\* being {Minute: 0, Hour: 0, Day: d}: the written minute 0 is kept.
C12_FirstWeekMinuteHourDay ==
    FirstWeekAtMidnight
    => /\ result.kind = "StartCalendarInterval"
       /\ Len(Entries) = 7
       /\ \A d \in 1..7 : Entries[d] = [Minute |-> 0, Hour |-> 0, Day |-> d]

\* a reached case of C12: the seven entries of '0 0 1-7 * *'
C12_Witness ==
    /\ FirstWeekAtMidnight
    /\ Len(Entries) = 7
    /\ Entries[7]["Day"] = 7

\* C13: wildcard seconds give StartInterval 1 when the five other fields are
\* all wildcards and the seconds-wildcard error when one of them is not; they
\* never give calendar entries.
C13_WildcardSeconds ==
    (Done /\ ParsedOK /\ secondField.wildcard)
    => /\ result.kind # "StartCalendarInterval"
       /\ Entries = <<>>
       /\ IF ExplicitFields = {}
          THEN result = StartInterval(1)
          ELSE result.kind = "Error" /\ result.error = "SecondsWildcard"

\* a reached case of C13: wildcard seconds refused beside an explicit hour
C13_Witness ==
    /\ Threw("SecondsWildcard")
    /\ secondField.wildcard
    /\ "hour" \in ExplicitFields

\* C14: a returned StartCalendarInterval is never empty: the call returns at
\* least one entry or fails.
C14_EntriesNonEmpty ==
    Returned("StartCalendarInterval") => Len(Entries) >= 1

\* a reached case of C14: no explicit field, the minute range substituted
C14_Witness ==
    /\ Returned("StartCalendarInterval")
    /\ ExplicitFields = {}
    /\ DOMAIN fieldsToCreate = {"Minute"}
    /\ Len(Entries) >= 1

\* C15: whenever StartInterval n is returned, the minute, hour, day-of-month,
\* month and day-of-week fields of the parsed expression are all wildcards.
C15_IntervalOnlyAllWildcard ==
    Returned("StartInterval")
    => /\ ParsedOK
       /\ \A f \in CronKeys : serializedFields[f].wildcard

\* a reached case of C15: StartInterval 7 from '*/7 * * * * *'
C15_Witness ==
    /\ Returned("StartInterval")
    /\ result.interval = 7
    /\ \A f \in CronKeys : serializedFields[f].wildcard

\* C16: seconds that are the single value 0, defaulted or written, give
\* calendar entries or an error, never a StartInterval; '*/5 * * * *' gives
\* 12 entries.
C16_NoIntervalFromMinutes ==
    /\ (Done /\ ParsedOK /\ ~secondField.wildcard /\ secondField.values = <<0>>)
       => result.kind \in {"StartCalendarInterval", "Error"}
    /\ (Done /\ cronString = EveryFiveMinutes)
       => /\ result.kind = "StartCalendarInterval"
          /\ Len(Entries) = 12

\* a reached case of C16: the 12 entries of '*/5 * * * *'
C16_Witness ==
    /\ Returned("StartCalendarInterval")
    /\ SecondsDefaulted
    /\ secondField.values = <<0>>
    /\ serializedFields["minute"].values = StepValues(0, 59, 5)
    /\ Len(Entries) = 12

\* the seconds were written as a step that leaves the single value 0
CollapsedStep ==
    /\ ParsedOK
    /\ ~secondField.wildcard
    /\ secondField.values = <<0>>
    /\ Includes(rawValue, "/")

\* the errors of the seconds validation
SecondsErrors ==
    {"SecondsNotNumbers", "SingleSecondMustBeZero", "SecondsRequireWildcards",
     "InconsistentInterval", "IntervalRequiresWildcards", "DegenerateInterval",
     "SecondsWildcard"}

\* C17 as stated: a seconds step that collapses to the single value 0 always
\* fails with the degenerate-interval error naming the written token, whether
\* or not the other fields are all wildcards.
C17_DegenerateAlways ==
    (Done /\ CollapsedStep)
    => /\ Threw("DegenerateInterval")
       /\ result.raw = rawValue

\* C17 amended: a seconds step that collapses to the single value 0 fails with
\* the degenerate-interval error naming the written token when the other five
\* fields are all wildcards; beside an explicit field it raises no seconds
\* error, and '*/100 5 * * * *' gives the single entry {Minute: 5}.
C17_DegenerateOnlyAllWildcard ==
    (Done /\ CollapsedStep)
    => IF ExplicitFields = {}
       THEN /\ Threw("DegenerateInterval")
            /\ result.raw = rawValue
       ELSE /\ result.kind # "StartInterval"
            /\ result.kind = "Error" => result.error \notin SecondsErrors
            /\ (/\ ExplicitFields = {"minute"}
                /\ serializedFields["minute"].values = <<5>>)
               => /\ result.kind = "StartCalendarInterval"
                  /\ Entries = <<[Minute |-> 5]>>

\* a reached case of C17: '*/100 5 * * * *' translated without an error
C17_Witness ==
    /\ Returned("StartCalendarInterval")
    /\ CollapsedStep
    /\ rawValue = <<"*", "/", "1", "0", "0">>
    /\ Entries = <<[Minute |-> 5]>>

\* the parser refused the string of this call
ParserFailed == parserCalls = 1 /\ ~CronExpressionParserParse(cronString).ok

\* the impossible day and month pairs of the tests
ImpossibleDates ==
    {Join(<<(<<"0">>), (<<"0">>), d, mo, (<<"*">>)>>) :
        d \in {<<"3", "0">>, <<"3", "1">>}, mo \in {<<"2">>, <<"4">>}}
    \ {Join(<<(<<"0">>), (<<"0">>), (<<"3", "0">>), (<<"4">>), (<<"*">>)>>)}

\* C18: what the parser throws (a malformed expression, the impossible pairs
\* '0 0 31 2 *', '0 0 31 4 *', '0 0 30 2 *') ends the call and reaches the
\* caller as thrown: not caught, wrapped or replaced, and nothing is returned.
C18_ParserErrorPropagates ==
    /\ ParserFailed
       => /\ Done
          /\ result.kind = "Error"
          /\ result.error = CronExpressionParserParse(cronString).error
          /\ secondField = NoField
          /\ fieldsToCreate = NoFields
          /\ Entries = <<>>
    /\ (parserCalls = 1 /\ cronString \in ImpossibleDates)
       => Threw("InvalidExplicitDayOfMonth")

\* a reached case of C18: '0 0 31 2 *' refused by the parser
C18_Witness ==
    /\ ParserFailed
    /\ cronString = Join(<<(<<"0">>), (<<"0">>), (<<"3", "1">>), (<<"2">>),
                           (<<"*">>)>>)
    /\ Threw("InvalidExplicitDayOfMonth")

SameFieldsWithoutSeconds ==
    /\ previous.called
    /\ previous.secondField # NoField
    /\ Len(Atoms(previous.cronString)) = 5
    /\ previous.serializedFields = serializedFields

\* C19: seconds that are the single value 0 beside at least one field that is
\* not a wildcard raise no seconds error, and the result is that of the same
\* five fields written without seconds, however the seconds were written.
C19_ZeroSecondsAsFiveFields ==
    (/\ Done /\ ParsedOK
     /\ ~secondField.wildcard
     /\ secondField.values = <<0>>
     /\ ExplicitFields # {})
    => /\ result.kind = "Error" => result.error \notin SecondsErrors
       /\ SameFieldsWithoutSeconds
          => /\ result = previous.result
             /\ Entries = previous.entries

\* a reached case of C19: '*/100 5 * * * *' after '5 * * * *'
C19_Witness ==
    /\ Returned("StartCalendarInterval")
    /\ SameFieldsWithoutSeconds
    /\ rawValue = <<"*", "/", "1", "0", "0">>
    /\ ExplicitFields = {"minute"}
    /\ Entries = previous.entries
    /\ Len(Entries) = 1

\* the seconds were written as a list of numbers
ExplicitSeconds ==
    /\ ParsedOK
    /\ ~secondField.wildcard
    /\ AllNumbers(secondField.values)

\* v0 = 0, every vi - v0 is i steps of v1 - v0, and vn plus a step is 60 or more
ConsistentList(v) ==
    /\ Len(v) >= 2
    /\ v[1] = 0
    /\ \A i \in 0..(Len(v) - 1) : v[i + 1] - v[1] = (v[2] - v[1]) * i
    /\ v[Len(v)] + (v[2] - v[1]) >= 60

\* C21: for an ascending list of seconds v0 < v1 < ... < vn
\* getConsistentSecondInterval returns v1 - v0 if and only if v0 = 0, every
\* vi - v0 is i times that step and vn plus the step is at least 60; in every
\* other case, a list of fewer than two values included, it returns undefined.
C21_ConsistentIffProgression ==
    ExplicitSeconds
    => LET v == secondField.values
           returned == getConsistentSecondInterval(v)
       IN  /\ ConsistentList(v) <=> (Len(v) >= 2 /\ returned = <<v[2] - v[1]>>)
           /\ ~ConsistentList(v) => returned = <<>>
           /\ Len(v) < 2 => returned = <<>>
           /\ (Done /\ Len(v) >= 2)
              => IF ConsistentList(v)
                 THEN /\ result.kind \in {"StartInterval", "Error"}
                      /\ result.kind = "StartInterval"
                             => result.interval = v[2] - v[1]
                      /\ result.kind = "Error"
                             => /\ result.error = "IntervalRequiresWildcards"
                                /\ result.values = <<v[2] - v[1]>>
                 ELSE Threw("InconsistentInterval")

\* a reached case of C21: the quarters of a minute give the step 15
C21_Witness ==
    /\ Returned("StartInterval")
    /\ secondField.values = <<0, 15, 30, 45>>
    /\ result.interval = 15

\* C22 as stated: every list of seconds accepted by the consistency check
\* tiles the minute: the returned step divides 60 and the listed seconds are
\* exactly the multiples of the step below 60.
C22_StepDividesSixty ==
    (Returned("StartInterval") /\ ExplicitSeconds)
    => /\ 60 % result.interval = 0
       /\ secondField.values = StepValues(0, 59, result.interval)

\* C23: a list of two or more seconds beside a field that is not a wildcard
\* fails with the inconsistent-interval error whenever the list fails the
\* consistency check, and with the interval-requires-wildcards error only
\* when the list is consistent.
C23_InconsistencyFirst ==
    (/\ Done /\ ExplicitSeconds
     /\ Len(secondField.values) >= 2
     /\ ExplicitFields # {})
    => /\ result.kind = "Error"
       /\ result.error \in {"InconsistentInterval", "IntervalRequiresWildcards"}
       /\ ~ConsistentList(secondField.values) <=> Threw("InconsistentInterval")
       /\ ConsistentList(secondField.values)
              <=> Threw("IntervalRequiresWildcards")

\* a reached case of C23: '10,20 5 * * * *' fails as inconsistent
C23_Witness ==
    /\ Threw("InconsistentInterval")
    /\ secondField.values = <<10, 20>>
    /\ ExplicitFields = {"minute"}

\* the parsed fields break a rule of the seconds decision table
SecondsRuleBroken ==
    /\ ParsedOK
    /\ IF secondField.wildcard
       THEN ExplicitFields # {}
       ELSE LET v == secondField.values
            IN  /\ AllNumbers(v)
                /\ \/ Len(v) = 1 /\ v[1] # 0
                   \/ Len(v) >= 2 /\ ~ConsistentList(v)
                   \/ Len(v) >= 2 /\ ExplicitFields # {}
                   \/ /\ v = <<0>> /\ ExplicitFields = {}
                      /\ Includes(rawValue, "/")

\* C24: a field set that breaks a seconds rule fails with the seconds error
\* before any field is mapped or any permutation total is computed, also when
\* the total would be above 65536.
C24_SecondsBeforeMapping ==
    SecondsRuleBroken
    => /\ pc \in {"seconds", "done"}
       /\ fieldsToCreate = NoFields
       /\ permutations = 0
       /\ Entries = <<>>
       /\ Done => /\ result.kind = "Error"
                   /\ result.error \in SecondsErrors

\* a reached case of C24: the seconds error of a total above the ceiling
C24_Witness ==
    /\ Threw("SecondsRequireWildcards")
    /\ secondField.values = <<1>>
    /\ Total > MaxPermutations
    /\ permutations = 0

\* C25: no entry of any result has Weekday 7: the weekdays are deduplicated
\* before the permutation total is computed and before the expansion, so the
\* count of entries and every Weekday value come from the deduplicated list
\* of values in 0..6 (the weekdays 0-7 count as 7 values, not 8).
C25_NoWeekdaySeven ==
    /\ "Weekday" \in DOMAIN fieldsToCreate
       => /\ ValueSet(fieldsToCreate["Weekday"]) \subseteq 0..6
          /\ Len(fieldsToCreate["Weekday"]) = Cardinal("dayOfWeek")
    /\ \A i \in 1..Len(Entries) :
           "Weekday" \in DOMAIN Entries[i] => Entries[i]["Weekday"] \in 0..6
    /\ (Expanded /\ "dayOfWeek" \in ExplicitFields)
       => /\ permutations = CardinalProduct(ExplicitFields)
          /\ result.kind = "StartCalendarInterval"
                 => Len(Entries) = CardinalProduct(ExplicitFields)

\* a reached case of C25: the 7 entries of '0 0 * * 0-7'
C25_Witness ==
    /\ Returned("StartCalendarInterval")
    /\ serializedFields["dayOfWeek"].raw = <<"0", "-", "7">>
    /\ serializedFields["dayOfWeek"].values = Range(0, 7)
    /\ ExplicitFields = {"minute", "hour", "dayOfWeek"}
    /\ permutations = 7
    /\ Len(Entries) = 7

\* C26: every call ends, with a result or an error, and builds at most 65536
\* entries: the loop runs exactly as many times as the permutation total and
\* is entered only when the total is at most 65536.
C26_TerminatesWithinCeiling ==
    /\ <>(Done /\ result.kind # "none")
    /\ [](/\ Len(Entries) <= MaxPermutations
          /\ Len(Entries) > 0 => /\ permutations <= MaxPermutations
                                  /\ Len(Entries) = permutations
          /\ Returned("StartCalendarInterval") => Len(Entries) = permutations)

\* a reached case of C26: a call ended without entering the loop, its total
\* being above the ceiling
C26_Witness ==
    /\ Done
    /\ result.kind = "Error"
    /\ permutations > MaxPermutations
    /\ Len(Entries) = 0

\* an earlier call was made on the parsed field set of this call
SameFieldSetBefore ==
    /\ previous.called
    /\ ParsedOK
    /\ previous.secondField = secondField
    /\ previous.serializedFields = serializedFields

TargetName ==
    [minute |-> "Minute", hour |-> "Hour", dayOfMonth |-> "Day",
     month |-> "Month", dayOfWeek |-> "Weekday"]

\* C28: the field mapper maps minute to Minute, hour to Hour, dayOfMonth to
\* Day, month to Month and dayOfWeek to Weekday; it raises an error for the
\* seconds field and for an unknown name; the seconds field is never handed
\* to it, so cronToPlistFragment never fails with that error.
C28_MapperNeverSeesSeconds ==
    /\ \A f \in DOMAIN TargetName :
           cronKeyToPlistKey(f) = [ok |-> TRUE, key |-> TargetName[f]]
    /\ ~cronKeyToPlistKey("second").ok
    /\ ~cronKeyToPlistKey("year").ok
    /\ "second" \notin DOMAIN serializedFields
    /\ ~Threw(cronKeyToPlistKey("second").key)
    /\ ~Threw(cronKeyToPlistKey("year").key)
    /\ (ExplicitFields # {} /\ pc = "expand")
       => /\ DOMAIN fieldsToCreate = {TargetName[f] : f \in ExplicitFields}
          /\ \A f \in ExplicitFields \ {"dayOfWeek"} :
                 fieldsToCreate[TargetName[f]] = serializedFields[f].values

\* a reached case of C28: all five fields mapped, the seconds being 0
C28_Witness ==
    /\ pc = "expand"
    /\ secondField.values = <<0>>
    /\ ExplicitFields = CronKeys
    /\ DOMAIN fieldsToCreate = PlistKeys

\* C29: all entries of a returned StartCalendarInterval have the same keys:
\* the plist names of the fields that are not wildcards (the seconds aside),
\* or Minute alone when all five are wildcards; no wildcard field is a key
\* and no entry lacks a field that is not a wildcard.
C29_SameKeySet ==
    Returned("StartCalendarInterval")
    => \A i \in 1..Len(Entries) :
           DOMAIN Entries[i] = IF ExplicitFields = {}
                               THEN {"Minute"}
                               ELSE {TargetName[f] : f \in ExplicitFields}

\* a reached case of C29: the entries of '5 * 1,15 * *' have Minute and Day
C29_Witness ==
    /\ Returned("StartCalendarInterval")
    /\ ExplicitFields = {"minute", "dayOfMonth"}
    /\ Len(Entries) = 2
    /\ DOMAIN Entries[1] = {"Minute", "Day"}
    /\ DOMAIN Entries[2] = {"Minute", "Day"}

LCM(a, b) == (a * b) \div GCD(a, b)

\* the least common multiple of the lengths of the lists of the expansion
RECURSIVE LCMOver(_)
LCMOver(keys) ==
    IF keys = {} THEN 1
    ELSE LET k == CHOOSE x \in keys : TRUE
         IN  LCM(Len(fieldsToCreate[k]), LCMOver(keys \ {k}))

PairwiseCoprime ==
    \A j, k \in DOMAIN fieldsToCreate :
        j # k => GCD(Len(fieldsToCreate[j]), Len(fieldsToCreate[k])) = 1

====
